---------------------------- MODULE Spec2Model ----------------------------
(***************************************************************************)
(* Model of the two Anki enrichment pipelines of this repository:          *)
(*   - elevenlabs/ankiConnect.py : BulgarianTTSProcessor (TTS pipeline)    *)
(*   - add_examples_to_anki.py   : ExampleUpdater (example import)         *)
(*                                                                         *)
(* Texts are sequences of Unicode code points.  Audio blobs are records    *)
(* [size, head, body]: the byte length, the leading bytes that             *)
(* media_file_exists inspects, and an identifier of the remaining bytes.   *)
(***************************************************************************)
EXTENDS Integers, Sequences, FiniteSets, TLC

VARIABLES
    pc,             \* control position of the running script
    dry_run,        \* the dry_run argument of process_deck / run
    exit_status,    \* "running", or the status the process exited with
    printed,        \* kinds of message printed so far
    failures,       \* number of failing calls injected so far
    \* ---- flashcard host and local disk
    deckCards,      \* note id of each card of the target deck, in findCards order
    hostNotes,      \* note id -> field name -> value
    hostMedia,      \* filename -> blob, the host's media store
    cache,          \* filename -> blob, the files under tts_cache/
    initial,        \* hostNotes, hostMedia and cache when the first run started
    \* ---- process_deck
    notes_info,     \* the notesInfo snapshot the loop iterates over
    idx,            \* position of the loop in notes_info
    processed,
    skipped,
    errors,
    reqLog,         \* calls made so far for the current note
    raised,         \* the last step raised into the loop's except clause
    outcomes,       \* outcome of each entry handled so far in this run
    run,            \* 1 for the first invocation, 2 for the second
    prev,           \* outcome of the first invocation
    \* ---- text function harness
    ptext,          \* raw text handed to clean_text_for_tts
    pclean,         \* clean_text_for_tts(ptext)
    presult,        \* is_text_suitable_for_tts(pclean)
    \* ---- cache harness
    writes,         \* the cache_audio calls made so far
    looked,         \* the last get_cached_audio call and its result
    \* ---- example import
    tsv_file,       \* the tab-separated input file
    examples_data,  \* ExampleUpdater.examples_data
    host_decks,     \* deck names the host has
    model_fields,   \* field names of the note template
    updated_count,
    matched_count,
    skipped_count

ctlVars == <<pc, dry_run, exit_status, printed, failures>>
hostVars == <<deckCards, hostNotes, hostMedia, cache, initial>>
loopVars == <<notes_info, idx, processed, skipped, errors, reqLog, raised, outcomes, run, prev>>
textVars == <<ptext, pclean, presult>>
cacheVars == <<writes, looked>>
exVars == <<tsv_file, examples_data, host_decks, model_fields,
            updated_count, matched_count, skipped_count>>
harnessVars == <<textVars, cacheVars>>
offVars == <<harnessVars, exVars>>
vars == <<ctlVars, hostVars, loopVars, textVars, cacheVars, exVars>>

(***************************************************************************)
(* Bounds                                                                  *)
(***************************************************************************)
MaxTextLen == 4

(***************************************************************************)
(* Code points                                                             *)
(***************************************************************************)
CyrillicFirst == 1024
CyrillicLast == 1279
MinCyrillicTenths == 3

ChSpace == 32
ChLParen == 40
ChRParen == 41
ChLt == 60
ChGt == 62
ChLBracket == 91
ChRBracket == 93

\* str.isspace() for the code points used here
IsSpace(c) == c \in {9, 10, 13, 32}

\* 'Ѐ' <= char <= 'ӿ'
IsCyrillic(c) == CyrillicFirst <= c /\ c <= CyrillicLast

\* regex \w (Unicode): letters, digits and underscore
IsWordChar(c) ==
    \/ c \in 48..57
    \/ c \in 65..90
    \/ c = 95
    \/ c \in 97..122
    \/ c \in 1040..1103

(***************************************************************************)
(* String helpers                                                          *)
(***************************************************************************)
RECURSIVE LStrip(_)
LStrip(s) == IF s = <<>> THEN <<>>
             ELSE IF IsSpace(Head(s)) THEN LStrip(Tail(s)) ELSE s

RECURSIVE RStrip(_)
RStrip(s) == IF s = <<>> THEN <<>>
             ELSE IF IsSpace(s[Len(s)]) THEN RStrip(SubSeq(s, 1, Len(s) - 1)) ELSE s

\* str.strip()
Strip(s) == RStrip(LStrip(s))

\* ' '.join(text.split())
RECURSIVE CollapseSpaces(_)
CollapseSpaces(s) ==
    LET t == LStrip(s) IN
    IF t = <<>> THEN <<>>
    ELSE LET rest == CollapseSpaces(Tail(t)) IN
         IF IsSpace(Head(Tail(t) \o <<0>>)) /\ rest # <<>>
         THEN <<Head(t), ChSpace>> \o rest
         ELSE <<Head(t)>> \o rest

\* index of the first occurrence of c in s at or after position i, 0 if none
RECURSIVE IndexFrom(_, _, _)
IndexFrom(s, c, i) == IF i > Len(s) THEN 0
                      ELSE IF s[i] = c THEN i ELSE IndexFrom(s, c, i + 1)

\* re.sub(open [^close]{minInner,} close, '', s), scanning left to right.
\* For the lazy patterns \[.*?\] and \(.*?\) the match also ends at the
\* first closing character, with minInner = 0.
RECURSIVE RemoveDelimited(_, _, _, _)
RemoveDelimited(s, open, close, minInner) ==
    IF s = <<>> THEN <<>>
    ELSE LET j == IndexFrom(s, close, 2 + minInner) IN
         IF Head(s) = open /\ j # 0
            /\ \A k \in 2..(j - 1) : s[k] # close
         THEN RemoveDelimited(SubSeq(s, j + 1, Len(s)), open, close, minInner)
         ELSE <<Head(s)>> \o RemoveDelimited(Tail(s), open, close, minInner)

clean_text_for_tts(text) ==
    LET noTags == RemoveDelimited(text, ChLt, ChGt, 1)
        collapsed == CollapseSpaces(noTags)
        noBrackets == RemoveDelimited(collapsed, ChLBracket, ChRBracket, 0)
        noParens == RemoveDelimited(noBrackets, ChLParen, ChRParen, 0)
    IN Strip(noParens)

RECURSIVE CountCyrillic(_)
CountCyrillic(text) ==
    IF text = <<>> THEN 0
    ELSE (IF IsCyrillic(Head(text)) THEN 1 ELSE 0) + CountCyrillic(Tail(text))

\* bulgarian_chars > len(text) * 0.3, in tenths (exact for every length:
\* the double len*0.3 compares with an integer as 3*len/10 does)
detect_bulgarian_text_loose(text) ==
    10 * CountCyrillic(text) > 2 * Len(text)

detect_bulgarian_text(text) ==
    10 * CountCyrillic(text) > MinCyrillicTenths * Len(text)

\* re.match(r'^[^\wЀ-ӿ]+$', text)
OnlyPunctuation(text) ==
    /\ text # <<>>
    /\ \A i \in 1..Len(text) : ~IsWordChar(text[i]) /\ ~IsCyrillic(text[i])

ReasonEmpty == "Empty text"
ReasonShort == "Text too short"
ReasonPunct == "Text contains only punctuation/symbols"
ReasonNotBulgarian == "Text doesn't appear to be Bulgarian"
ReasonOK == "OK"

is_text_suitable_for_tts(text) ==
    IF text = <<>> \/ Strip(text) = <<>>
    THEN [ok |-> FALSE, reason |-> ReasonEmpty]
    ELSE IF Len(Strip(text)) < 1
    THEN [ok |-> FALSE, reason |-> ReasonShort]
    ELSE IF OnlyPunctuation(text)
    THEN [ok |-> FALSE, reason |-> ReasonPunct]
    ELSE IF ~detect_bulgarian_text(text)
    THEN [ok |-> FALSE, reason |-> ReasonNotBulgarian]
    ELSE [ok |-> TRUE, reason |-> ReasonOK]

(***************************************************************************)
(* Harness for the text functions: every raw text over FilterChars up to   *)
(* MaxTextLen is cleaned and filtered as process_deck does (lines 300-303) *)
(***************************************************************************)
FilterChars == {ChSpace, 33, ChLParen, ChRParen, 49, ChLt, ChGt,
                ChLBracket, ChRBracket, 97, 1076}

RECURSIVE TextsUpTo(_, _)
TextsUpTo(chars, n) ==
    IF n = 0 THEN {<<>>}
    ELSE LET shorter == TextsUpTo(chars, n - 1) IN
         shorter \cup {Append(t, c) : t \in {s \in shorter : Len(s) = n - 1}, c \in chars}

\* longer texts over one Latin and one Cyrillic letter, so that ratios of
\* exactly three in ten occur
MaxBoundaryLen == 10
BoundaryChars == {97, 1076}

FilterTexts ==
    TextsUpTo(FilterChars, MaxTextLen) \cup TextsUpTo(BoundaryChars, MaxBoundaryLen)

NoResult == [ok |-> FALSE, reason |-> "none"]

HostIdle ==
    /\ deckCards = <<>>
    /\ hostNotes = <<>>
    /\ hostMedia = <<>>
    /\ cache = <<>>
    /\ initial = <<>>

LoopIdle ==
    /\ notes_info = <<>>
    /\ idx = 1
    /\ processed = 0
    /\ skipped = 0
    /\ errors = 0
    /\ reqLog = <<>>
    /\ raised = FALSE
    /\ outcomes = <<>>
    /\ run = 1
    /\ prev = [dry_run |-> FALSE, processed |-> 0, skipped |-> 0, errors |-> 0,
               outcomes |-> <<>>]

TextIdle ==
    /\ ptext = <<>>
    /\ pclean = <<>>
    /\ presult = NoResult

CacheIdle ==
    /\ writes = <<>>
    /\ looked = <<>>

ExIdle ==
    /\ tsv_file = <<>>
    /\ examples_data = <<>>
    /\ host_decks = {}
    /\ model_fields = {}
    /\ updated_count = 0
    /\ matched_count = 0
    /\ skipped_count = 0

InitFilter ==
    /\ pc = "filter"
    /\ dry_run = FALSE
    /\ exit_status = "running"
    /\ printed = {}
    /\ failures = 0
    /\ HostIdle
    /\ LoopIdle
    /\ TextIdle
    /\ CacheIdle
    /\ ExIdle

CheckText ==
    /\ pc = "filter"
    /\ \E raw \in FilterTexts :
        /\ pc' = "filtered"
        /\ ptext' = raw
        /\ pclean' = clean_text_for_tts(raw)
        /\ presult' = is_text_suitable_for_tts(pclean')
    /\ UNCHANGED <<dry_run, exit_status, printed, failures, hostVars, loopVars,
                   cacheVars, exVars>>

NextFilter == CheckText

SpecFilter == InitFilter /\ [][NextFilter]_vars

Checked == presult # NoResult

LowCyrillicRatio(t) == t # <<>> /\ 10 * CountCyrillic(t) < 3 * Len(t)

\* C6 (as stated): every cleaned text with Cyrillic ratio below 0.3 is
\* rejected with the reason "Text doesn't appear to be Bulgarian".
C6_LowRatioAlwaysNotBulgarian ==
    (Checked /\ LowCyrillicRatio(pclean))
        => presult = [ok |-> FALSE, reason |-> ReasonNotBulgarian]

\* C6 (amended): every cleaned text with Cyrillic ratio below 0.3 is
\* rejected; the reason is "Text doesn't appear to be Bulgarian" when the
\* text has a word or Cyrillic character, and "Text contains only
\* punctuation/symbols" when it has none.
C6_LowRatioRejected ==
    (Checked /\ LowCyrillicRatio(pclean))
        => /\ presult.ok = FALSE
           /\ presult.reason =
                IF \E i \in 1..Len(pclean) :
                       IsWordChar(pclean[i]) \/ IsCyrillic(pclean[i])
                THEN ReasonNotBulgarian ELSE ReasonPunct

\* a cleaned text with one Cyrillic character in four (ratio 0.25) was filtered
C6_Witness ==
    /\ Checked
    /\ Len(pclean) = 4
    /\ CountCyrillic(pclean) = 1
    /\ presult.reason = ReasonNotBulgarian

\* C14: a non-empty cleaned text that is not punctuation-only is rejected by
\* the language check exactly when its Cyrillic characters are fewer than
\* 30% of its characters; with exactly 30% it is accepted as suitable.
C14_ExactlyThirtyPercentAccepted ==
    (Checked /\ pclean # <<>> /\ ~OnlyPunctuation(pclean)) =>
        /\ (presult.reason = ReasonNotBulgarian) <=> LowCyrillicRatio(pclean)
        /\ 10 * CountCyrillic(pclean) = 3 * Len(pclean) => presult.ok

(***************************************************************************)
(* Audio blobs, the host's media store and the local cache                 *)
(***************************************************************************)
MaxNotes == 2
MaxFailures == 1
DigestSpace == 7

MinMp3Size == 1024
Mp3Heads == {"ID3", "FFFB", "FFFA", "FFF3", "FFF2"}

EmptyBytes == [size |-> 0, head |-> "", body |-> <<>>]
ShortBlob == [size |-> 500, head |-> "ID3", body |-> <<0>>]
NoHeaderBlob == [size |-> 2 * MinMp3Size, head |-> "RIFF", body |-> <<1>>]
OldMp3Blob == [size |-> MinMp3Size, head |-> "ID3", body |-> <<2>>]

\* base64.b64encode / base64.b64decode
B64Encode(data) == [b64 |-> data]
B64Decode(encoded) == encoded.b64

\* hashlib.md5(text.encode('utf-8')).hexdigest()[:8], abstracted to a
\* deterministic hash into DigestSpace values (collisions are possible)
RECURSIVE Md5Prefix(_)
Md5Prefix(text) ==
    IF text = <<>> THEN 0
    ELSE (31 * Md5Prefix(SubSeq(text, 1, Len(text) - 1)) + text[Len(text)]) % DigestSpace

generate_filename(text) == "tts_bg_" \o ToString(Md5Prefix(text)) \o ".mp3"

get_cached_audio_falsy_empty(disk, text) ==
    LET name == generate_filename(text) IN
    IF name \in DOMAIN disk /\ disk[name].size > 0
    THEN [found |-> TRUE, data |-> disk[name]]
    ELSE [found |-> FALSE, data |-> EmptyBytes]

\* returns the file's bytes, or None (found = FALSE)
get_cached_audio(disk, text) ==
    LET name == generate_filename(text) IN
    IF name \in DOMAIN disk
    THEN [found |-> TRUE, data |-> disk[name]]
    ELSE [found |-> FALSE, data |-> EmptyBytes]

WriteFile(disk, name, data) ==
    [f \in DOMAIN disk \cup {name} |-> IF f = name THEN data ELSE disk[f]]

cache_audio(disk, text, audio_data) ==
    WriteFile(disk, generate_filename(text), audio_data)

\* host side of retrieveMediaFile: the encoded file, or found = FALSE
RetrieveMediaFile(media, filename) ==
    IF filename \in DOMAIN media
    THEN [found |-> TRUE, data |-> B64Encode(media[filename])]
    ELSE [found |-> FALSE, data |-> B64Encode(EmptyBytes)]

\* host side of storeMediaFile
StoreMediaFile(media, filename, encoded) ==
    WriteFile(media, filename, B64Decode(encoded))

media_file_exists_any_size(media, filename, reachable) ==
    IF ~reachable THEN FALSE
    ELSE LET result == RetrieveMediaFile(media, filename) IN
         IF ~result.found THEN FALSE
         ELSE B64Decode(result.data).head \in Mp3Heads

\* reachable = FALSE: the retrieveMediaFile request raises, and the outer
\* except clause turns that into False
media_file_exists(media, filename, reachable) ==
    IF ~reachable THEN FALSE
    ELSE LET result == RetrieveMediaFile(media, filename) IN
         IF ~result.found THEN FALSE
         ELSE LET audio_data == B64Decode(result.data) IN
              IF audio_data.size < MinMp3Size THEN FALSE
              ELSE IF audio_data.head \notin Mp3Heads THEN FALSE
              ELSE TRUE

generate_speech_empty(text) == EmptyBytes

\* ElevenLabsTTS.generate_speech: text shorter than 3 characters is padded
\* with "."; the service answers with MPEG frames for the text it was given
generate_speech(text) ==
    LET spoken == IF Len(Strip(text)) < 3 THEN Strip(text) \o <<46>> ELSE text IN
    [size |-> MinMp3Size * (1 + Len(spoken)), head |-> "FFFB", body |-> spoken]

(***************************************************************************)
(* Note fields.  The audio field is a sequence of tokens: whitespace,      *)
(* other text, or a [sound:<file>] reference.                              *)
(***************************************************************************)
TokSpace == [t |-> "ws"]
TokText == [t |-> "txt"]
TokSound(filename) == [t |-> "sound", file |-> filename]

\* value.strip() is empty
IsBlankAudio(value) == \A i \in 1..Len(value) : value[i].t = "ws"

\* re.search(r'\[sound:([^\]]+)\]', content): position of the first reference
sound_match(content) ==
    LET hits == {i \in 1..Len(content) : content[i].t = "sound"} IN
    IF hits = {} THEN 0 ELSE CHOOSE i \in hits : \A j \in hits : i <= j

\* f"[sound:{filename}]"
audio_html(filename) == <<TokSound(filename)>>

\* host side of updateNoteFields: fields the note does not have are ignored
UpdateNoteFields(notes, note_id, field, value) ==
    IF field \in DOMAIN notes[note_id]
    THEN [notes EXCEPT ![note_id][field] = value]
    ELSE notes

(***************************************************************************)
(* Sample deck contents                                                    *)
(***************************************************************************)
TextBlank == <<ChSpace>>
TextLatin == <<97, 98>>
TextDa == <<1076, 1072>>
TextDaHtml == <<ChLt, 98, ChGt, 1076, 1072>>
TextNe == <<1085, 1077>>

FileDa == generate_filename(TextDa)
FileOld == "old_recording.mp3"

NoteSamples ==
    << [Audio |-> <<>>],
       [Front |-> TextBlank, Audio |-> <<>>],
       [Front |-> TextLatin, Audio |-> <<>>],
       [Front |-> TextDa, Audio |-> <<>>],
       [Front |-> TextDaHtml],
       [Front |-> TextDa, Audio |-> audio_html(FileDa)],
       [Front |-> TextDa, Audio |-> <<TokSpace, TokSound(FileOld)>>],
       [Front |-> TextDa, Audio |-> <<TokText>>],
       [Front |-> TextNe, Audio |-> <<>>] >>

NoteIds == DOMAIN NoteSamples

\* findNotes returns each note of the deck once, in ascending id order
RECURSIVE ListsUpTo(_, _)
ListsUpTo(S, n) ==
    IF n = 0 THEN {<<>>}
    ELSE LET shorter == ListsUpTo(S, n - 1)
             longest == {s \in shorter : Len(s) = n - 1} IN
         shorter \cup {Append(l, x) : <<l, x>> \in
                           {p \in longest \X S : p[1] = <<>> \/ p[1][Len(p[1])] < p[2]}}

PartialFiles(name, blobs) == {<<>>} \cup {(name :> b) : b \in blobs}

MediaSamples ==
    {m1 @@ m2 : m1 \in PartialFiles(FileDa, {ShortBlob, OldMp3Blob}),
                m2 \in PartialFiles(FileOld, {ShortBlob, OldMp3Blob}) \ {<<>>}}

CacheSamples == PartialFiles(FileDa, {EmptyBytes, ShortBlob, OldMp3Blob})

DeckName == "Bulgarian"

(***************************************************************************)
(* TTS pipeline: main and process_deck                                     *)
(***************************************************************************)
InitTTS ==
    /\ pc = "main"
    /\ dry_run = FALSE
    /\ exit_status = "running"
    /\ printed = {}
    /\ failures = 0
    /\ deckCards \in ListsUpTo(NoteIds, MaxNotes)
    /\ hostNotes = NoteSamples
    /\ hostMedia \in MediaSamples
    /\ cache \in CacheSamples
    /\ initial = [notes |-> hostNotes, media |-> hostMedia, cache |-> cache]
    /\ LoopIdle
    /\ TextIdle
    /\ CacheIdle
    /\ ExIdle

\* a call may fail only while the failure budget lasts
Outcomes == IF failures < MaxFailures THEN BOOLEAN ELSE {TRUE}

Failed(ok) == IF ok THEN 0 ELSE 1

Req(op, note_id, filename, ok) ==
    [op |-> op, note |-> note_id, file |-> filename, ok |-> ok]

\* exit(main()): main returned 1
ExitWithError(msg) ==
    /\ pc' = "exited"
    /\ exit_status' = "1"
    /\ printed' = printed \cup {msg}

\* exit(main()): main returned None
ExitNormally(msg) ==
    /\ pc' = "exited"
    /\ exit_status' = "0"
    /\ printed' = printed \cup {msg}

\* no --api-key and no ELEVENLABS_API_KEY
MainMissingApiKey ==
    /\ pc = "main"
    /\ ExitWithError("Error: ElevenLabs API key is required")
    /\ UNCHANGED <<dry_run, failures, hostVars, loopVars, offVars>>

\* --list-decks: the deckNames request either answers or raises
MainListDecks ==
    \E ok \in Outcomes :
        /\ pc = "main"
        /\ failures' = failures + Failed(ok)
        /\ IF ok THEN ExitNormally("Available decks:")
                 ELSE ExitWithError("Error: deckNames")
        /\ UNCHANGED <<dry_run, hostVars, loopVars, offVars>>

\* neither --list-decks, --list-voices nor --deck
MainNoDeck ==
    /\ pc = "main"
    /\ ExitNormally("Please specify a deck name")
    /\ UNCHANGED <<dry_run, failures, hostVars, loopVars, offVars>>

\* host side of findCards: a deck the host does not have matches no card
FindCards(deck_name) == IF deck_name = DeckName THEN deckCards ELSE <<>>

\* host side of notesInfo: one entry per requested id, in request order
NotesInfo(note_ids) ==
    [i \in 1..Len(note_ids) |-> [noteId |-> note_ids[i], fields |-> hostNotes[note_ids[i]]]]

\* main with --deck, up to the first iteration of the loop of process_deck
StartProcessDeck ==
    \E deck_name \in {DeckName, "Missing"}, dry \in BOOLEAN, ok \in Outcomes :
        /\ pc = "main"
        /\ dry_run' = dry
        /\ failures' = failures + Failed(ok)
        /\ reqLog' = <<>>
        /\ raised' = FALSE
        /\ outcomes' = <<>>
        /\ processed' = 0
        /\ skipped' = 0
        /\ errors' = 0
        /\ idx' = 1
        /\ IF ~ok
           THEN /\ ExitWithError("Error: request failed")
                /\ notes_info' = <<>>
           ELSE IF FindCards(deck_name) = <<>>
           THEN /\ ExitNormally("No cards found in deck")
                /\ notes_info' = <<>>
           ELSE /\ pc' = "loop"
                /\ notes_info' = NotesInfo(FindCards(deck_name))
                /\ UNCHANGED <<exit_status, printed>>
        /\ UNCHANGED <<hostVars, run, prev, offVars>>

InLoop == idx <= Len(notes_info)
note == notes_info[idx]
clean_text == clean_text_for_tts(note.fields["Front"])
filename == generate_filename(clean_text)

EndNoteErrorUncounted(kind) ==
    /\ idx' = idx + 1
    /\ pc' = "loop"
    /\ processed' = processed + (IF kind = "processed" THEN 1 ELSE 0)
    /\ skipped' = skipped + (IF kind = "skipped" THEN 1 ELSE 0)
    /\ errors' = errors
    /\ raised' = (kind = "error")
    /\ outcomes' = Append(outcomes, kind)

\* the iteration ends: one counter goes up, the loop moves to the next entry
EndNote(kind) ==
    /\ idx' = idx + 1
    /\ pc' = "loop"
    /\ processed' = processed + (IF kind = "processed" THEN 1 ELSE 0)
    /\ skipped' = skipped + (IF kind = "skipped" THEN 1 ELSE 0)
    /\ errors' = errors + (IF kind = "error" THEN 1 ELSE 0)
    /\ raised' = (kind = "error")
    /\ outcomes' = Append(outcomes, kind)

\* the except clause of the loop: count the error, go on with the next entry
HandleExceptionAborting ==
    /\ idx' = Len(notes_info) + 1
    /\ pc' = "loop"
    /\ errors' = errors + 1
    /\ raised' = TRUE
    /\ outcomes' = Append(outcomes, "error")
    /\ UNCHANGED <<processed, skipped>>

HandleException == EndNote("error")

Continue(next) ==
    /\ pc' = next
    /\ raised' = FALSE
    /\ UNCHANGED <<idx, processed, skipped, errors, outcomes>>

\* lines 286-307: field check, cleaning, suitability filter
FieldAndTextChecks ==
    /\ pc = "loop"
    /\ InLoop
    /\ reqLog' = <<>>
    /\ IF "Front" \notin DOMAIN note.fields
       THEN EndNote("skipped")
       ELSE IF Strip(note.fields["Front"]) = <<>>
       THEN EndNote("skipped")
       ELSE IF ~is_text_suitable_for_tts(clean_text).ok
       THEN EndNote("skipped")
       ELSE Continue("audio")
    /\ UNCHANGED <<dry_run, exit_status, printed, failures, hostVars,
                   notes_info, run, prev, offVars>>

\* `if not dry_run:` in front of every update_note_fields of steps 4 and 5
MayMutateAlways == TRUE

MayMutate == ~dry_run

ClearField(ok) ==
    IF ok THEN hostNotes' = UpdateNoteFields(hostNotes, note.noteId, "Audio", <<>>)
          ELSE hostNotes' = hostNotes

\* lines 309-334: validation of the audio the note already has
ExistingAudioCheck ==
    \E retrieved \in Outcomes, updated \in BOOLEAN :
        /\ pc = "audio"
        /\ failures + Failed(retrieved) + Failed(updated) <= MaxFailures
        /\ failures' = failures + Failed(retrieved) + Failed(updated)
        /\ IF "Audio" \in DOMAIN note.fields /\ ~IsBlankAudio(note.fields["Audio"])
           THEN LET content == note.fields["Audio"]
                    m == sound_match(content)
                    clearReq == Req("updateNoteFields", note.noteId, "", updated)
                IN
                IF m # 0
                THEN LET existing_filename == content[m].file
                         retrieveReq == Req("retrieveMediaFile", 0, existing_filename, retrieved)
                     IN
                     IF media_file_exists(hostMedia, existing_filename, retrieved)
                     THEN /\ updated
                          /\ reqLog' = Append(reqLog, retrieveReq)
                          /\ EndNote("skipped")
                          /\ UNCHANGED hostNotes
                     ELSE IF ~MayMutate
                     THEN /\ updated
                          /\ reqLog' = Append(reqLog, retrieveReq)
                          /\ Continue("filename")
                          /\ UNCHANGED hostNotes
                     ELSE /\ reqLog' = reqLog \o <<retrieveReq, clearReq>>
                          /\ ClearField(updated)
                          /\ IF updated THEN Continue("filename") ELSE HandleException
                ELSE /\ retrieved
                     /\ IF ~MayMutate
                        THEN /\ updated
                             /\ Continue("filename")
                             /\ UNCHANGED <<hostNotes, reqLog>>
                        ELSE /\ reqLog' = Append(reqLog, clearReq)
                             /\ ClearField(updated)
                             /\ IF updated THEN Continue("filename") ELSE HandleException
           ELSE /\ retrieved
                /\ updated
                /\ Continue("filename")
                /\ UNCHANGED <<hostNotes, reqLog>>
        /\ UNCHANGED <<dry_run, exit_status, printed, deckCards, hostMedia, cache,
                       initial, notes_info, run, prev, offVars>>

\* lines 336-355: the deterministic file may already be in the media store
FilenameCheck ==
    \E retrieved \in Outcomes, updated \in BOOLEAN :
        /\ pc = "filename"
        /\ failures + Failed(retrieved) + Failed(updated) <= MaxFailures
        /\ failures' = failures + Failed(retrieved) + Failed(updated)
        /\ LET retrieveReq == Req("retrieveMediaFile", 0, filename, retrieved)
               attachReq == Req("updateNoteFields", note.noteId, filename, updated)
           IN
           IF media_file_exists(hostMedia, filename, retrieved)
           THEN IF "Audio" \notin DOMAIN note.fields \/ IsBlankAudio(note.fields["Audio"])
                THEN IF ~MayMutate
                     THEN /\ updated
                          /\ reqLog' = Append(reqLog, retrieveReq)
                          /\ EndNote("skipped")
                          /\ UNCHANGED hostNotes
                     ELSE /\ reqLog' = reqLog \o <<retrieveReq, attachReq>>
                          /\ hostNotes' = IF updated
                                THEN UpdateNoteFields(hostNotes, note.noteId, "Audio",
                                                      audio_html(filename))
                                ELSE hostNotes
                          /\ IF updated THEN EndNote("skipped") ELSE HandleException
                ELSE /\ updated
                     /\ reqLog' = Append(reqLog, retrieveReq)
                     /\ EndNote("skipped")
                     /\ UNCHANGED hostNotes
           ELSE /\ updated
                /\ reqLog' = Append(reqLog, retrieveReq)
                /\ UNCHANGED hostNotes
                /\ IF dry_run THEN EndNote("processed") ELSE Continue("synthesis")
        /\ UNCHANGED <<dry_run, exit_status, printed, deckCards, hostMedia, cache,
                       initial, notes_info, run, prev, offVars>>

CacheMissNoneOnly(cached) == ~cached.found

\* `if not audio_data:` holds for None and for empty bytes
CacheMiss(cached) == ~cached.found \/ cached.data.size = 0

UpdateFollowsStoreAttempt(reachedStore, storeOK) == reachedStore

\* lines 373-378: update_note_fields runs only after store_media_file returned
UpdateFollowsStore(reachedStore, storeOK) == reachedStore /\ storeOK

\* lines 357-384: cache lookup, synthesis, push to the host, field update.
\* failAt names the call that raises, if any; truncated tells whether a
\* failing write_bytes left an empty file behind.
Synthesis ==
    \E failAt \in {"none", "generate_speech", "cache_audio", "storeMediaFile",
                   "updateNoteFields"}, truncated \in BOOLEAN :
        LET cached == get_cached_audio(cache, clean_text)
            miss == CacheMiss(cached)
            audio_data == IF miss THEN generate_speech(clean_text) ELSE cached.data
            synthOK == failAt # "generate_speech"
            cacheOK == failAt # "cache_audio"
            storeOK == failAt # "storeMediaFile"
            updateOK == failAt # "updateNoteFields"
            reachedCache == miss /\ synthOK
            reachedStore == ~miss \/ (synthOK /\ cacheOK)
            reachedUpdate == UpdateFollowsStore(reachedStore, storeOK)
        IN
        /\ pc = "synthesis"
        /\ failAt # "none" => failures < MaxFailures
        /\ failAt \in {"generate_speech", "cache_audio"} => miss
        /\ truncated => failAt = "cache_audio"
        /\ failures' = failures + (IF failAt = "none" THEN 0 ELSE 1)
        /\ reqLog' = reqLog
               \o (IF miss THEN <<Req("generate_speech", 0, "", synthOK)>> ELSE <<>>)
               \o (IF reachedCache THEN <<Req("cache_audio", 0, filename, cacheOK)>> ELSE <<>>)
               \o (IF reachedStore THEN <<Req("storeMediaFile", 0, filename, storeOK)>> ELSE <<>>)
               \o (IF reachedUpdate
                   THEN <<Req("updateNoteFields", note.noteId, filename, updateOK)>>
                   ELSE <<>>)
        /\ cache' = IF ~reachedCache THEN cache
                    ELSE IF cacheOK THEN cache_audio(cache, clean_text, audio_data)
                    ELSE IF truncated THEN cache_audio(cache, clean_text, EmptyBytes)
                    ELSE cache
        /\ hostMedia' = IF reachedStore /\ storeOK
                        THEN StoreMediaFile(hostMedia, filename, B64Encode(audio_data))
                        ELSE hostMedia
        /\ hostNotes' = IF reachedUpdate /\ updateOK
                        THEN UpdateNoteFields(hostNotes, note.noteId, "Audio",
                                              audio_html(filename))
                        ELSE hostNotes
        /\ IF failAt = "none" THEN EndNote("processed") ELSE HandleException
        /\ UNCHANGED <<dry_run, exit_status, printed, deckCards, initial,
                       notes_info, run, prev, offVars>>

\* lines 390-393, then main returns None
Report ==
    /\ pc = "loop"
    /\ ~InLoop
    /\ ExitNormally("Processing complete!")
    /\ UNCHANGED <<dry_run, failures, hostVars, loopVars, offVars>>

NextTTS ==
    \/ MainMissingApiKey
    \/ MainListDecks
    \/ MainNoDeck
    \/ StartProcessDeck
    \/ FieldAndTextChecks
    \/ ExistingAudioCheck
    \/ FilenameCheck
    \/ Synthesis
    \/ Report

Spec == InitTTS /\ [][NextTTS]_vars

\* the script is started again after a run that reached its final report;
\* nothing outside the script changes in between
Rerun ==
    /\ pc = "exited"
    /\ run = 1
    /\ "Processing complete!" \in printed
    /\ run' = 2
    /\ pc' = "main"
    /\ exit_status' = "running"
    /\ printed' = {}
    /\ prev' = [dry_run |-> dry_run, processed |-> processed, skipped |-> skipped,
                errors |-> errors, outcomes |-> outcomes]
    /\ dry_run' = FALSE
    /\ notes_info' = <<>>
    /\ idx' = 1
    /\ processed' = 0
    /\ skipped' = 0
    /\ errors' = 0
    /\ reqLog' = <<>>
    /\ raised' = FALSE
    /\ outcomes' = <<>>
    /\ UNCHANGED <<failures, hostVars, offVars>>

SpecTwoRuns == InitTTS /\ [][NextTTS \/ Rerun]_vars

(***************************************************************************)
(* Properties of the TTS pipeline                                          *)
(***************************************************************************)
MutatingOps == {"updateNoteFields", "storeMediaFile"}
LogHas(ops) == \E i \in 1..Len(reqLog) : reqLog[i].op \in ops
SomeCallFailed == \E i \in 1..Len(reqLog) : ~reqLog[i].ok
ReportPrinted == pc = "exited" /\ "Processing complete!" \in printed
HasStaleAudio(n) ==
    /\ "Front" \in DOMAIN n.fields
    /\ "Audio" \in DOMAIN n.fields
    /\ ~IsBlankAudio(n.fields["Audio"])

\* C2: in a dry run process_deck sends no updateNoteFields and no
\* storeMediaFile request, never calls the synthesis client, writes nothing
\* to the cache, and leaves the host's notes and media store as they were.
C2_DryRunMutatesNothing ==
    dry_run =>
        /\ ~LogHas(MutatingOps \cup {"generate_speech", "cache_audio"})
        /\ hostNotes = initial.notes
        /\ hostMedia = initial.media
        /\ cache = initial.cache

\* a dry run reached its report after handling a note whose audio field held
\* an invalid reference and that it would regenerate
C2_Witness ==
    /\ dry_run
    /\ ReportPrinted
    /\ \E i \in 1..Len(outcomes) :
          outcomes[i] = "processed" /\ HasStaleAudio(notes_info[i])

ValidBlob(b) == b.size >= MinMp3Size /\ b.head \in Mp3Heads

FirstNote == notes_info[1]
FirstHandled == pc = "loop" /\ idx = 2

\* C4: in a live run without failing calls, a note with suitable text whose
\* audio field references a media file that is present but shorter than
\* 1024 bytes ends with its audio field equal to the reference to the
\* deterministic file of its cleaned text.
C4_SmallFileIsRegenerated ==
    ( /\ FirstHandled /\ ~dry_run /\ failures = 0
      /\ HasStaleAudio(FirstNote)
      /\ is_text_suitable_for_tts(clean_text_for_tts(FirstNote.fields["Front"])).ok
      /\ LET m == sound_match(FirstNote.fields["Audio"]) IN
           /\ m # 0
           /\ FirstNote.fields["Audio"][m].file \in DOMAIN initial.media
           /\ initial.media[FirstNote.fields["Audio"][m].file].size < MinMp3Size )
    => hostNotes[FirstNote.noteId]["Audio"]
         = audio_html(generate_filename(clean_text_for_tts(FirstNote.fields["Front"])))

Last(s) == s[Len(s)]

\* a call of the loop body raised in this step (requests inside
\* media_file_exists never raise into the loop body)
RaisedInStep ==
    /\ reqLog' # reqLog
    /\ reqLog' # <<>>
    /\ ~Last(reqLog').ok
    /\ Last(reqLog').op # "retrieveMediaFile"

C10_FailedRequestIsAnError ==
    (pc \in {"loop", "exited"} /\ outcomes # <<>> /\ SomeCallFailed)
        => Last(outcomes) = "error"

FirstText == clean_text_for_tts(FirstNote.fields["Front"])
FirstFile == generate_filename(FirstText)
FirstSuitable ==
    /\ "Front" \in DOMAIN FirstNote.fields
    /\ Strip(FirstNote.fields["Front"]) # <<>>
    /\ is_text_suitable_for_tts(FirstText).ok

\* the audio field of the entry references a file that validates in the
\* media store the run started from
FirstHasValidAudio ==
    /\ HasStaleAudio(FirstNote)
    /\ LET m == sound_match(FirstNote.fields["Audio"]) IN
         /\ m # 0
         /\ FirstNote.fields["Audio"][m].file \in DOMAIN initial.media
         /\ ValidBlob(initial.media[FirstNote.fields["Audio"][m].file])

\* C11: in a live run, a note with suitable text and an audio field that is
\* empty or holds an invalid or unrecognized reference, whose deterministic
\* file validates in the media store, ends with its audio field equal to the
\* reference to that file, and the synthesis client is not called for it.
C11_ExistingFileAttached ==
    ( /\ FirstHandled /\ ~dry_run /\ failures = 0
      /\ FirstSuitable
      /\ "Audio" \in DOMAIN FirstNote.fields
      /\ ~FirstHasValidAudio
      /\ FirstFile \in DOMAIN initial.media
      /\ ValidBlob(initial.media[FirstFile]) )
    => /\ hostNotes[FirstNote.noteId]["Audio"] = audio_html(FirstFile)
       /\ ~LogHas({"generate_speech"})

\* C12: a note with suitable text whose audio field references a media file
\* that validates is counted as skipped, its audio field is left as it was,
\* and neither the synthesis client nor storeMediaFile nor updateNoteFields
\* is called for it.
C12_ValidReferenceSkipped ==
    (FirstHandled /\ FirstSuitable /\ FirstHasValidAudio)
    => /\ outcomes[1] = "skipped"
       /\ hostNotes[FirstNote.noteId]["Audio"] = FirstNote.fields["Audio"]
       /\ ~LogHas({"generate_speech", "storeMediaFile", "updateNoteFields"})

HasReq(log, op) == \E i \in 1..Len(log) : log[i].op = op
OkReq(log, op) == \E i \in 1..Len(log) : log[i].op = op /\ log[i].ok

\* C13 (as stated): the synthesis step calls the synthesis client exactly
\* when the cache holds no file for the text; a file that exists, zero bytes
\* included, is pushed to the host as it is; after a successful synthesis the
\* cache holds the synthesized bytes.
C13_SynthesisIffNoCacheFile ==
    [][pc = "synthesis" =>
        LET hasFile == filename \in DOMAIN cache IN
        /\ HasReq(reqLog', "generate_speech") <=> ~hasFile
        /\ hasFile =>
              /\ HasReq(reqLog', "storeMediaFile")
              /\ OkReq(reqLog', "storeMediaFile") => hostMedia'[filename] = cache[filename]
        /\ OkReq(reqLog', "generate_speech") =>
              /\ filename \in DOMAIN cache'
              /\ cache'[filename] = generate_speech(clean_text)]_vars

\* C13 (amended): the synthesis step calls the synthesis client exactly
\* when the cache holds no file or a zero-byte file for the text; a
\* non-empty file is pushed to the host as it is; after a successful
\* synthesis and cache write the cache holds the synthesized bytes, and
\* these are the bytes pushed to the host.
C13_SynthesisIffNoCachedBytes ==
    [][pc = "synthesis" =>
        LET hit == filename \in DOMAIN cache /\ cache[filename].size > 0 IN
        /\ HasReq(reqLog', "generate_speech") <=> ~hit
        /\ hit =>
              /\ HasReq(reqLog', "storeMediaFile")
              /\ OkReq(reqLog', "storeMediaFile") => hostMedia'[filename] = cache[filename]
              /\ cache' = cache
        /\ (OkReq(reqLog', "generate_speech") /\ OkReq(reqLog', "cache_audio")) =>
              /\ cache'[filename] = generate_speech(clean_text)
              /\ HasReq(reqLog', "storeMediaFile")
              /\ OkReq(reqLog', "storeMediaFile") =>
                    hostMedia'[filename] = generate_speech(clean_text)]_vars

\* the first entry found a zero-byte cache file, the synthesis client was
\* called, and cache and media store now hold the synthesized bytes
C13_Witness ==
    /\ FirstHandled /\ ~dry_run
    /\ FirstSuitable
    /\ FirstFile \in DOMAIN initial.cache
    /\ initial.cache[FirstFile] = EmptyBytes
    /\ outcomes[1] = "processed"
    /\ OkReq(reqLog, "generate_speech")
    /\ cache[FirstFile] = generate_speech(FirstText)
    /\ hostMedia[FirstFile] = generate_speech(FirstText)

\* C15: a live run started from the state a dry run was started from, and
\* in which no call fails, ends every entry as the dry run did and reports
\* the same processed and skipped counts.
C15_DryRunPredictsLiveRun ==
    (run = 2 /\ prev.dry_run /\ ~dry_run /\ failures = 0 /\ ReportPrinted) =>
        /\ outcomes = prev.outcomes
        /\ processed = prev.processed
        /\ skipped = prev.skipped

\* C16: in the synthesis step the reference to the deterministic file is
\* written to the note only after storeMediaFile succeeded for that file
\* during the same note's processing; when the push fails no reference is
\* requested and the host's notes are left as they were.
C16_StoreBeforeReference ==
    [][pc = "synthesis" =>
        /\ \A i \in 1..Len(reqLog') :
              (reqLog'[i].op = "updateNoteFields" /\ reqLog'[i].file = filename) =>
                  \E j \in 1..(i - 1) :
                      /\ reqLog'[j].op = "storeMediaFile"
                      /\ reqLog'[j].file = filename
                      /\ reqLog'[j].ok
        /\ hostNotes' # hostNotes =>
              /\ OkReq(reqLog', "storeMediaFile")
              /\ filename \in DOMAIN hostMedia']_vars

\* the first entry was synthesized: its file was pushed, then the reference
\* was written, and the host holds both
C16_Witness ==
    /\ FirstHandled /\ ~dry_run
    /\ outcomes[1] = "processed"
    /\ Len(reqLog) >= 2
    /\ reqLog[Len(reqLog) - 1] = Req("storeMediaFile", 0, FirstFile, TRUE)
    /\ Last(reqLog) = Req("updateNoteFields", FirstNote.noteId, FirstFile, TRUE)
    /\ FirstFile \in DOMAIN hostMedia
    /\ hostNotes[FirstNote.noteId]["Audio"] = audio_html(FirstFile)

Tally(kind) == Cardinality({i \in 1..Len(outcomes) : outcomes[i] = kind})

MaxWrites == 3

CacheTexts == TextsUpTo({1076, 1072}, 2) \ {<<>>}
CacheBlobs == {EmptyBytes, ShortBlob, OldMp3Blob}

NotLooked == [text |-> <<>>, result |-> [found |-> FALSE, data |-> EmptyBytes]]

InitCache ==
    /\ pc = "cache"
    /\ dry_run = FALSE
    /\ exit_status = "running"
    /\ printed = {}
    /\ failures = 0
    /\ deckCards = <<>>
    /\ hostNotes = <<>>
    /\ hostMedia = <<>>
    /\ cache = <<>>
    /\ initial = <<>>
    /\ LoopIdle
    /\ TextIdle
    /\ ExIdle
    /\ writes = <<>>
    /\ looked = NotLooked

\* cache_audio(text, audio_data)
CacheAudio ==
    \E text \in CacheTexts, audio_data \in CacheBlobs :
        /\ pc = "cache"
        /\ Len(writes) < MaxWrites
        /\ cache' = cache_audio(cache, text, audio_data)
        /\ writes' = Append(writes, [text |-> text, data |-> audio_data])
        /\ looked' = NotLooked
        /\ UNCHANGED <<ctlVars, deckCards, hostNotes, hostMedia, initial, loopVars,
                       textVars, exVars>>

\* get_cached_audio(text)
GetCachedAudio ==
    \E text \in CacheTexts :
        /\ pc = "cache"
        /\ looked' = [text |-> text, result |-> get_cached_audio(cache, text)]
        /\ UNCHANGED <<ctlVars, hostVars, loopVars, textVars, exVars, writes>>

NextCache == CacheAudio \/ GetCachedAudio

SpecCache == InitCache /\ [][NextCache]_vars

\* position in writes of the last cache_audio(text, ...), 0 if there is none
LastWriteOf(text) ==
    LET hits == {i \in 1..Len(writes) : writes[i].text = text} IN
    IF hits = {} THEN 0 ELSE CHOOSE i \in hits : \A j \in hits : j <= i

\* no later cache_audio went to the file of text
NotOverwritten(text) ==
    \A j \in (LastWriteOf(text) + 1)..Len(writes) :
        generate_filename(writes[j].text) # generate_filename(text)

\* C7: get_cached_audio(text) returns exactly the bytes of the last
\* cache_audio(text, bytes), also when they are empty and also after
\* cache_audio calls for texts with another digest.
C7_CacheRoundTrip ==
    (looked # NotLooked /\ LastWriteOf(looked.text) # 0 /\ NotOverwritten(looked.text))
        => /\ looked.result.found
           /\ looked.result.data = writes[LastWriteOf(looked.text)].data

\* empty bytes were stored for a text, another text with another digest was
\* stored afterwards, and the first text was looked up
C7_Witness ==
    /\ looked # NotLooked
    /\ LastWriteOf(looked.text) = 1
    /\ Len(writes) >= 2
    /\ NotOverwritten(looked.text)
    /\ writes[1].data = EmptyBytes
    /\ writes[2].data # EmptyBytes

(***************************************************************************)
(* Example-import pipeline: add_examples_to_anki.py                        *)
(***************************************************************************)
NoTsv == [exists |-> FALSE, rows |-> <<>>]
TsvOf(rows) == [exists |-> TRUE, rows |-> rows]

ExampleBg == <<1076, 1072, 33>>
ExampleEn == <<97, 98, 33>>
OldText == <<97>>

Row(bulgarian, bulgarian_example, english_example) ==
    [Bulgarian |-> bulgarian, English |-> <<97, 98>>,
     Bulgarian_Example |-> bulgarian_example, English_Example |-> english_example]

TsvSamples ==
    { NoTsv,
      TsvOf(<<>>),
      TsvOf(<<Row(<<ChSpace>> \o TextDa, ExampleBg \o <<ChSpace>>, ExampleEn)>>),
      TsvOf(<<Row(TextDa, OldText, OldText), Row(TextNe, ExampleBg, <<ChSpace>>),
              Row(TextDa, ExampleBg, ExampleEn)>>) }

\* load_examples_from_tsv, lines 104-116: rows in order, later rows win
RECURSIVE LoadRows(_, _)
LoadRows(rows, data) ==
    IF rows = <<>> THEN data
    ELSE LET row == Head(rows)
             bulgarian == Strip(row.Bulgarian)
             bulgarian_example == Strip(row.Bulgarian_Example)
             english_example == Strip(row.English_Example)
             entry == [english |-> Strip(row.English),
                       bulgarian_example |-> bulgarian_example,
                       english_example |-> english_example]
         IN IF bulgarian # <<>> /\ bulgarian_example # <<>> /\ english_example # <<>>
            THEN LoadRows(Tail(rows),
                     [k \in DOMAIN data \cup {bulgarian} |->
                          IF k = bulgarian THEN entry ELSE data[k]])
            ELSE LoadRows(Tail(rows), data)

ExampleFields == {"Bulgarian_Example", "English_Example"}

ExNote(front, bg, en) ==
    [Front |-> front, Bulgarian_Example |-> bg, English_Example |-> en]

ExNoteSamples ==
    << ExNote(TextDa, <<>>, <<>>),
       ExNote(TextDa, OldText, <<>>),
       ExNote(TextDa, <<>>, OldText),
       ExNote(TextDa, OldText, OldText),
       ExNote(TextDa, <<ChSpace>>, OldText),
       ExNote(<<ChSpace>> \o TextDa, <<>>, <<>>),
       ExNote(TextNe, <<>>, <<>>),
       ExNote(<<ChSpace>>, <<>>, <<>>) >>

\* the notes of a template have the template's fields and no others
Restrict(f, S) == [x \in DOMAIN f \cap S |-> f[x]]

Distinct(l) == \A i, j \in 1..Len(l) : i # j => l[i] # l[j]

InitExamples ==
    /\ pc = "ex_main"
    /\ dry_run = TRUE
    /\ exit_status = "running"
    /\ printed = {}
    /\ failures = 0
    /\ tsv_file \in TsvSamples
    /\ examples_data = <<>>
    /\ host_decks \in {{}, {DeckName}}
    /\ model_fields \in {{"Front"} \cup S : S \in SUBSET ExampleFields}
    /\ deckCards \in {l \in ListsUpTo(DOMAIN ExNoteSamples, MaxNotes) : Distinct(l)}
    /\ hostNotes = [i \in DOMAIN ExNoteSamples |-> Restrict(ExNoteSamples[i], model_fields)]
    /\ hostMedia = <<>>
    /\ cache = <<>>
    /\ initial = [notes |-> hostNotes, media |-> hostMedia, cache |-> cache]
    /\ updated_count = 0
    /\ matched_count = 0
    /\ skipped_count = 0
    /\ LoopIdle
    /\ TextIdle
    /\ CacheIdle

ExReq(op, note_id, fields, ok) ==
    [op |-> op, note |-> note_id, fields |-> fields, ok |-> ok]

\* run prints "Error: ..." and returns False; main returns None
RunFails(msg) ==
    /\ pc' = "exited"
    /\ exit_status' = "0"
    /\ printed' = printed \cup {msg}

\* main, lines 304-310, and load_examples_from_tsv
LoadExamples ==
    \E execute \in BOOLEAN :
        /\ pc = "ex_main"
        /\ dry_run' = ~execute
        /\ IF ~tsv_file.exists
           THEN /\ RunFails("Error: TSV file not found")
                /\ UNCHANGED examples_data
           ELSE /\ examples_data' = LoadRows(tsv_file.rows, <<>>)
                /\ pc' = "ex_deck"
                /\ UNCHANGED <<exit_status, printed>>
        /\ UNCHANGED <<failures, hostVars, loopVars, harnessVars, tsv_file, host_decks,
                       model_fields, updated_count, matched_count, skipped_count>>

\* check_deck_exists and the raise of line 243
CheckDeckExists ==
    \E ok \in Outcomes :
        /\ pc = "ex_deck"
        /\ failures' = failures + Failed(ok)
        /\ reqLog' = Append(reqLog, ExReq("deckNames", 0, <<>>, ok))
        /\ IF ~ok THEN RunFails("Error: request failed")
           ELSE IF DeckName \notin host_decks THEN RunFails("Error: Deck not found")
           ELSE pc' = "ex_notes" /\ UNCHANGED <<exit_status, printed>>
        /\ UNCHANGED <<dry_run, hostVars, notes_info, idx, processed, skipped, errors,
                       raised, outcomes, run, prev, harnessVars, exVars>>

\* get_notes_from_deck
GetNotesFromDeck ==
    \E ok \in Outcomes :
        /\ pc = "ex_notes"
        /\ failures' = failures + Failed(ok)
        /\ reqLog' = Append(reqLog, ExReq("findNotes", 0, <<>>, ok))
        /\ IF ~ok
           THEN RunFails("Error: request failed") /\ UNCHANGED notes_info
           ELSE IF deckCards = <<>>
           THEN RunFails("Error: No notes found in deck") /\ UNCHANGED notes_info
           ELSE /\ notes_info' = NotesInfo(deckCards)
                /\ pc' = "ex_fields"
                /\ UNCHANGED <<exit_status, printed>>
        /\ UNCHANGED <<dry_run, hostVars, idx, processed, skipped, errors,
                       raised, outcomes, run, prev, harnessVars, exVars>>

\* host side of addField: the template and each of its notes gain the field
AddField(notes, field) ==
    [i \in DOMAIN notes |->
        [f \in DOMAIN notes[i] \cup {field} |->
            IF f \in DOMAIN notes[i] THEN notes[i][f] ELSE <<>>]]

\* lines 148-164: an addField request for each missing field, whatever
\* dry_run is; a failing request is only reported
ensure_example_fields_exist(okBg, okEn) ==
    LET needBg == "Bulgarian_Example" \notin model_fields
        needEn == "English_Example" \notin model_fields
        added == (IF needBg /\ okBg THEN {"Bulgarian_Example"} ELSE {})
                 \cup (IF needEn /\ okEn THEN {"English_Example"} ELSE {})
        withBg == IF "Bulgarian_Example" \in added
                  THEN AddField(hostNotes, "Bulgarian_Example") ELSE hostNotes
    IN
    /\ ~needBg => okBg
    /\ ~needEn => okEn
    /\ reqLog' = reqLog
         \o (IF needBg THEN <<ExReq("addField", 0, <<"Bulgarian_Example">>, okBg)>> ELSE <<>>)
         \o (IF needEn THEN <<ExReq("addField", 0, <<"English_Example">>, okEn)>> ELSE <<>>)
    /\ model_fields' = model_fields \cup added
    /\ hostNotes' = IF "English_Example" \in added
                    THEN AddField(withBg, "English_Example") ELSE withBg

\* ensure_example_fields_exist, called from run at line 249
EnsureExampleFields ==
    \E ok \in Outcomes, okBg \in BOOLEAN, okEn \in BOOLEAN :
        /\ pc = "ex_fields"
        /\ failures + Failed(ok) + Failed(okBg) + Failed(okEn) <= MaxFailures
        /\ failures' = failures + Failed(ok) + Failed(okBg) + Failed(okEn)
        /\ IF ~ok
           THEN /\ okBg /\ okEn
                /\ RunFails("Error: request failed")
                /\ UNCHANGED <<reqLog, model_fields, hostNotes>>
           ELSE /\ ensure_example_fields_exist(okBg, okEn)
                /\ pc' = "ex_match"
                /\ UNCHANGED <<exit_status, printed>>
        /\ UNCHANGED <<dry_run, deckCards, hostMedia, cache, initial, notes_info, idx,
                       processed, skipped, errors, raised, outcomes, run, prev, harnessVars,
                       tsv_file, examples_data, host_decks,
                       updated_count, matched_count, skipped_count>>

\* fields.get(name, {}).get('value', '').strip()
FieldValue(fields, name) == IF name \in DOMAIN fields THEN Strip(fields[name]) ELSE <<>>

update_fields_overwriting(fields, example_data) ==
    [f \in ExampleFields |->
        IF f = "Bulgarian_Example" THEN example_data.bulgarian_example
        ELSE example_data.english_example]

\* lines 200-207: the fields to patch, with the record's text
update_fields(fields, example_data) ==
    [f \in {g \in ExampleFields : FieldValue(fields, g) = <<>>} |->
        IF f = "Bulgarian_Example" THEN example_data.bulgarian_example
        ELSE example_data.english_example]

\* host side of updateNoteFields for several fields
UpdateFields(notes, note_id, patch) ==
    [notes EXCEPT ![note_id] =
        [f \in DOMAIN notes[note_id] |->
            IF f \in DOMAIN patch THEN patch[f] ELSE notes[note_id][f]]]

ExEndNote(kind, matched) ==
    /\ idx' = idx + 1
    /\ updated_count' = updated_count + (IF kind = "updated" THEN 1 ELSE 0)
    /\ skipped_count' = skipped_count + (IF kind = "skipped" THEN 1 ELSE 0)
    /\ matched_count' = matched_count + (IF matched THEN 1 ELSE 0)
    /\ outcomes' = Append(outcomes, kind)

\* one iteration of the loop of match_and_update_notes, lines 174-227
MatchAndUpdateNote ==
    \E ok \in Outcomes :
        /\ pc = "ex_match"
        /\ InLoop
        /\ failures' = failures + Failed(ok)
        /\ LET fields == note.fields
               front_text == FieldValue(fields, "Front")
           IN
           IF front_text = <<>>
           THEN ok /\ ExEndNote("skipped", FALSE) /\ UNCHANGED <<reqLog, hostNotes>>
           ELSE IF front_text \notin DOMAIN examples_data
           THEN ok /\ ExEndNote("skipped", FALSE) /\ UNCHANGED <<reqLog, hostNotes>>
           ELSE IF FieldValue(fields, "Bulgarian_Example") # <<>>
                   /\ FieldValue(fields, "English_Example") # <<>>
           THEN ok /\ ExEndNote("skipped", TRUE) /\ UNCHANGED <<reqLog, hostNotes>>
           ELSE LET patch == update_fields(fields, examples_data[front_text]) IN
                IF DOMAIN patch = {}
                THEN ok /\ ExEndNote("skipped", TRUE) /\ UNCHANGED <<reqLog, hostNotes>>
                ELSE IF dry_run
                THEN ok /\ ExEndNote("updated", TRUE) /\ UNCHANGED <<reqLog, hostNotes>>
                ELSE /\ reqLog' = Append(reqLog,
                             ExReq("updateNoteFields", note.noteId, patch, ok))
                     /\ hostNotes' = IF ok THEN UpdateFields(hostNotes, note.noteId, patch)
                                     ELSE hostNotes
                     /\ ExEndNote(IF ok THEN "updated" ELSE "skipped", TRUE)
        /\ UNCHANGED <<pc, dry_run, exit_status, printed, deckCards, hostMedia, cache,
                       initial, notes_info, processed, skipped, errors, raised, run, prev,
                       harnessVars, tsv_file, examples_data, host_decks, model_fields>>

\* lines 254-273: the summary; run returns True and main returns None
Summary ==
    /\ pc = "ex_match"
    /\ ~InLoop
    /\ pc' = "exited"
    /\ exit_status' = "0"
    /\ printed' = printed \cup {"SUMMARY"}
    /\ UNCHANGED <<dry_run, failures, hostVars, loopVars, harnessVars, exVars>>

NextExamples ==
    \/ LoadExamples
    \/ CheckDeckExists
    \/ GetNotesFromDeck
    \/ EnsureExampleFields
    \/ MatchAndUpdateNote
    \/ Summary

SpecExamples == InitExamples /\ [][NextExamples]_vars

(***************************************************************************)
(* Properties of the example-import pipeline                               *)
(***************************************************************************)
ExLogHas(ops) == \E i \in 1..Len(reqLog) : reqLog[i].op \in ops

\* C1: a dry run of the example import sends no mutating request to the
\* host: no updateNoteFields and no addField, also when the note template
\* lacks Bulgarian_Example or English_Example.
C1_DryRunSendsNoMutatingRequest ==
    (pc \in {"ex_deck", "ex_notes", "ex_fields", "ex_match", "exited"} /\ dry_run)
        => /\ ~ExLogHas({"updateNoteFields", "addField"})
           /\ hostNotes = initial.notes

SetupErrors ==
    {"Error: TSV file not found", "Error: request failed", "Error: Deck not found",
     "Error: No notes found in deck", "Error: deckNames",
     "Error: ElevenLabs API key is required"}

\* C9: after a failure of the setup phase the process ends with a non-zero
\* exit status and a message, and no note has been processed.
C9_SetupFailureExitsNonZero ==
    (pc = "exited" /\ printed \cap SetupErrors # {})
        => /\ exit_status = "1"
           /\ outcomes = <<>>

\* the entry the loop has just handled, and what the host held for it
JustHandled == notes_info[idx - 1]
ExHandled == pc = "ex_match" /\ idx > 1 /\ ~dry_run
OldFields == JustHandled.fields
NewFields == hostNotes[JustHandled.noteId]
ExactMatch ==
    /\ "Front" \in DOMAIN OldFields
    /\ OldFields["Front"] \in DOMAIN examples_data
UpdateSent ==
    /\ reqLog # <<>>
    /\ Last(reqLog).op = "updateNoteFields"
    /\ Last(reqLog).note = JustHandled.noteId
RawValue(fields, name) == IF name \in DOMAIN fields THEN fields[name] ELSE <<>>
RecordText(name) ==
    IF name = "Bulgarian_Example"
    THEN examples_data[OldFields["Front"]].bulgarian_example
    ELSE examples_data[OldFields["Front"]].english_example

\* C5 (as stated): in a live run, for a note whose Front equals a record
\* key, the update request carries exactly the example fields that are
\* empty, with the record's text; a field that was not empty keeps its
\* value; with both fields non-empty no update request is sent.
C5_PatchesExactlyEmptyFields ==
    (ExHandled /\ ExactMatch) =>
        LET empties == {f \in ExampleFields : RawValue(OldFields, f) = <<>>} IN
        /\ UpdateSent <=> empties # {}
        /\ UpdateSent => /\ DOMAIN Last(reqLog).fields = empties
                         /\ \A f \in empties : Last(reqLog).fields[f] = RecordText(f)
        /\ \A f \in ExampleFields \cap DOMAIN OldFields :
              OldFields[f] # <<>> => NewFields[f] = OldFields[f]

\* C5 (amended): the same with "empty" read as "empty or whitespace only":
\* the update request carries exactly the blank example fields, a field
\* that was not blank keeps its value, and with no blank field no request
\* is sent; after a successful request the blank fields the note has hold
\* the record's text.
C5_PatchesExactlyBlankFields ==
    (ExHandled /\ ExactMatch) =>
        LET blanks == {f \in ExampleFields : Strip(RawValue(OldFields, f)) = <<>>} IN
        /\ UpdateSent <=> blanks # {}
        /\ UpdateSent => /\ DOMAIN Last(reqLog).fields = blanks
                         /\ \A f \in blanks : Last(reqLog).fields[f] = RecordText(f)
                         /\ Last(reqLog).ok =>
                              \A f \in blanks \cap DOMAIN NewFields :
                                  NewFields[f] = RecordText(f)
        /\ \A f \in ExampleFields \cap DOMAIN OldFields :
              Strip(OldFields[f]) # <<>> => NewFields[f] = OldFields[f]

\* a live run patched the one empty field of a note whose other field was filled
C5_Witness ==
    /\ ExHandled /\ ExactMatch /\ UpdateSent /\ Last(reqLog).ok
    /\ DOMAIN Last(reqLog).fields = {"English_Example"}
    /\ NewFields["Bulgarian_Example"] = OldText
    /\ NewFields["English_Example"] = ExampleEn

=============================================================================
